---- MODULE Spec2Model ----
(***************************************************************************)
(* Model of the off-circuit trace verifier of mpt-circuit (src/types.rs): *)
(* path_root, ClaimKind::from, Proof::from and Proof::check, applied to   *)
(* bounded sets of SMTTrace inputs.                                       *)
(*                                                                         *)
(* Field elements are integers 0 .. FieldModulus-1 (a scaled-down scalar  *)
(* field); HexBytes<N> values are byte sequences; a panic (failed         *)
(* assert_eq!, unwrap, unimplemented!, unreachable!) is an explicit       *)
(* outcome of the operation that hits it.                                 *)
(***************************************************************************)
EXTENDS Integers, Sequences, FiniteSets, TLC

VARIABLES trace, pc, proof, kind, checked, call, ret

vars == <<trace, pc, proof, kind, checked, call, ret>>

(***************************************************************************)
(* Bounds of the model.                                                    *)
(***************************************************************************)
FieldModulus == 5
MaxLen == 2
MaxLevels == 3
MaxNonce == 1
MaxBalance == 1
MaxCodeHash == 1
\* HexBytes<32> and the 32-byte representation of Fr, scaled to HexLen bytes
HexLen == 2
\* the shift 32 of Fr::from(1 << 32), half the width of a u64 digit, scaled
HalfDigitBits == 1
\* the longest balance, in digits, handed to balance_convert
MaxBalanceDigits == 3
\* the largest index handed to bit(i)
MaxBitIndex == 167

(***************************************************************************)
(* Program constants.                                                      *)
(***************************************************************************)
AddressLen == 20
AddressHighLen == 16
LowShift == 96
\* u64_digits.resize(4, 0)
CodeHashDigits == 4

(***************************************************************************)
(* Option<T>                                                               *)
(***************************************************************************)
None == [some |-> FALSE]
Some(x) == [some |-> TRUE, val |-> x]

(***************************************************************************)
(* Field elements and the two-to-one compression primitive.               *)
(***************************************************************************)
Fr == 0 .. (FieldModulus - 1)

\* Fr::zero(), Fr::one()
FrZero == 0
FrOne == 1

\* The Poseidon permutation is outside src/: a fixed, deterministic,
\* non-symmetric two-to-one function on the field stands for it.
Poseidon(x, y) == (2 * x + 3 * y + 1) % FieldModulus

hash(x, y) == Poseidon(x, y)

\* The outcome of a panicking conversion or assertion, as a digest.
Panicked == 0 - 1

Min(a, b) == IF a < b THEN a ELSE b

RECURSIVE Pow2(_)
Pow2(n) == IF n = 0 THEN 1 ELSE 2 * Pow2(n - 1)

(***************************************************************************)
(* Byte-level conversions.                                                 *)
(***************************************************************************)
RECURSIVE FromLittleEndian(_, _)
FromLittleEndian(bytes, i) ==
    IF i > Len(bytes) THEN 0 ELSE bytes[i] + 256 * FromLittleEndian(bytes, i + 1)

\* Fr::from_bytes: the little-endian value, None when it is not canonical.
FrFromBytes(bytes) ==
    LET v == FromLittleEndian(bytes, 1)
    IN  IF v < FieldModulus THEN Some(v) ELSE None

\* Fr::to_bytes: the canonical little-endian representation.
RECURSIVE LittleEndianBytes(_, _)
LittleEndianBytes(v, n) ==
    IF n = 0 THEN <<>> ELSE <<v % 256>> \o LittleEndianBytes(v \div 256, n - 1)

FrToBytes(x) == LittleEndianBytes(x, HexLen)

Reverse(s) == [i \in 1 .. Len(s) |-> s[Len(s) + 1 - i]]

\* fn fr(x: HexBytes<32>) -> Fr: Fr::from_bytes(&x.0).unwrap()
fr(x) == IF FrFromBytes(x).some THEN FrFromBytes(x).val ELSE Panicked

\* U256::from_big_endian
RECURSIVE FromBigEndian(_, _, _)
FromBigEndian(bytes, i, acc) ==
    IF i > Len(bytes) THEN acc ELSE FromBigEndian(bytes, i + 1, acc * 256 + bytes[i])

\* BigUint::to_bytes_be: the minimal big-endian bytes, [0] for zero.
RECURSIVE ToBytesBE(_)
ToBytesBE(x) == IF x < 256 THEN <<x>> ELSE ToBytesBE(x \div 256) \o <<x % 256>>

\* fn u256(x: &BigUint) -> U256
u256(x) == FromBigEndian(ToBytesBE(x), 1, 0)

\* fn u256_from_hex(x: HexBytes<32>) -> U256
u256_from_hex(x) == FromBigEndian(x, 1, 0)

(***************************************************************************)
(* fn bits(x: usize, len: usize) -> Vec<bool>                              *)
(***************************************************************************)
\* the while loop: least significant bit first, until x is 0
RECURSIVE BitsLoop(_)
BitsLoop(x) == IF x = 0 THEN <<>> ELSE <<x % 2 = 1>> \o BitsLoop(x \div 2)

\* Vec::resize(len, false)
Resize(s, len) == [i \in 1 .. len |-> IF i <= Len(s) THEN s[i] ELSE FALSE]

bits(x, len) == Reverse(Resize(BitsLoop(x), len))

(***************************************************************************)
(* impl Bit for Fr                                                         *)
(***************************************************************************)
\* bytes.get(31 - i / 8) of the reversed (big-endian) canonical bytes,
\* for the indices the model uses (i < 8 * HexLen).
FrBit(x, i) ==
    LET bytes == Reverse(FrToBytes(x))
        byte == bytes[(HexLen - 1 - (i \div 8)) + 1]
    IN  (byte \div Pow2(i % 8)) % 2 = 1

\* the outcome of a call of bit(i)
BitOk(b) == [tag |-> "Ok", val |-> b]
BitPanic == [tag |-> "Panic"]

\* byte & (1 << (i % 8)) != 0
ByteBit(byte, i) == (byte \div Pow2(i % 8)) % 2 = 1

\* the usize subtraction top - i / 8 underflows when i / 8 > top: the build
\* with overflow checks panics there, the build without them wraps to an
\* index past the end, for which get() is None and bit() is false.
Underflows(top, i) == i \div 8 > top

\* impl Bit for Fr, for any index
FrBitOutcomes(x, i) ==
    IF Underflows(HexLen - 1, i) THEN {BitPanic, BitOk(FALSE)}
    ELSE {BitOk(FrBit(x, i))}

\* impl Bit for Address: self.0.get(19 - i / 8)
AddressBitOutcomes(address, i) ==
    IF Underflows(AddressLen - 1, i) THEN {BitPanic, BitOk(FALSE)}
    ELSE {BitOk(ByteBit(address[(AddressLen - 1 - (i \div 8)) + 1], i))}

(***************************************************************************)
(* fn account_key(address: Address) -> Fr                                  *)
(***************************************************************************)
\* Fr::from_u128(u128::from_be_bytes(bytes)): the big-endian value as a field
\* element, folded byte by byte in the field.
RECURSIVE FrFromBE(_, _, _)
FrFromBE(bytes, i, acc) ==
    IF i > Len(bytes) THEN acc
    ELSE FrFromBE(bytes, i + 1, (acc * 256 + bytes[i]) % FieldModulus)

\* 2^n as a field element
RECURSIVE FrPow2(_)
FrPow2(n) ==
    IF n = 0 THEN 1 % FieldModulus
    ELSE IF n % 2 = 0 THEN (FrPow2(n \div 2) * FrPow2(n \div 2)) % FieldModulus
    ELSE (2 * FrPow2(n - 1)) % FieldModulus

\* Fr::from_u128(x << n) for x << n below 2^128
FrShl(x, n) == (x * FrPow2(n)) % FieldModulus

account_key(address) ==
    LET high_bytes == SubSeq(address, 1, AddressHighLen)
        low_bytes == SubSeq(address, AddressHighLen + 1, AddressLen)
        address_high == FrFromBE(high_bytes, 1, 0)
        address_low == FrShl(FrFromBE(low_bytes, 1, 0), LowShift)
    IN  hash(address_high, address_low)

(***************************************************************************)
(* fn balance_convert(balance: BigUint) -> Fr                              *)
(* fn hi_lo(x: BigUint) -> (Fr, Fr)                                        *)
(***************************************************************************)
\* the width of a u64 digit, scaled: Fr::from(1 << 32).square() is 2^64
DigitBits == 2 * HalfDigitBits

DigitBase == Pow2(DigitBits)

\* BigUint::to_u64_digits: least significant digit first, empty for zero
RECURSIVE to_u64_digits(_)
to_u64_digits(x) ==
    IF x = 0 THEN <<>> ELSE <<x % DigitBase>> \o to_u64_digits(x \div DigitBase)

\* Fr::from(x: u64) and Fr::from_u128(x)
FrFrom(x) == x % FieldModulus

\* Fr::from(1 << 32).square()
ShiftSquared == (FrFrom(Pow2(HalfDigitBits)) * FrFrom(Pow2(HalfDigitBits))) % FieldModulus

\* the fold |a, b| a * Fr::from(1 << 32).square() + Fr::from(*b) from index k
RECURSIVE BalanceFold(_, _, _)
BalanceFold(digits, k, a) ==
    IF k > Len(digits) THEN a
    ELSE BalanceFold(digits, k + 1, (a * ShiftSquared + FrFrom(digits[k])) % FieldModulus)

\* balance_convert without .rev(): least significant digit first
balance_convert_NoRev(balance) == BalanceFold(to_u64_digits(balance), 1, FrZero)

balance_convert(balance) == BalanceFold(Reverse(to_u64_digits(balance)), 1, FrZero)

\* Vec::resize(len, value)
ResizeWith(s, len, value) == [i \in 1 .. len |-> IF i <= Len(s) THEN s[i] ELSE value]

\* the pair (hi, lo); u64_digits[k] is u64_digits[k + 1] here
hi_lo(x) ==
    LET u64_digits == ResizeWith(to_u64_digits(x), CodeHashDigits, 0)
    IN  <<FrFrom(u64_digits[4] * DigitBase + u64_digits[3]),
          FrFrom(u64_digits[2] * DigitBase + u64_digits[1])>>

(***************************************************************************)
(* SMTPathParse::try_from(&path): the ordered (left, right, result) hash  *)
(* steps of the path, from the leaf to the root, or an error when a       *)
(* recorded value is not a canonical field element.                       *)
(***************************************************************************)
HexOk(x) == FrFromBytes(x).some

PathHexOk(path) ==
    /\ HexOk(path.root)
    /\ path.leaf.some => (HexOk(path.leaf.val.value) /\ HexOk(path.leaf.val.sibling))
    /\ \A k \in 1 .. Len(path.path) :
          HexOk(path.path[k].value) /\ HexOk(path.path[k].sibling)

RECURSIVE ParseSteps(_, _, _)
ParseSteps(path, k, digest) ==
    IF k = 0 THEN <<>>
    ELSE LET s == fr(path.path[k].sibling)
             bit == (path.path_part \div Pow2(k - 1)) % 2 = 1
             l == IF bit THEN s ELSE digest
             r == IF bit THEN digest ELSE s
         IN  <<<<l, r, Poseidon(l, r)>>>> \o ParseSteps(path, k - 1, Poseidon(l, r))

ParseLeafSteps(path) ==
    IF path.leaf.some
    THEN LET key == fr(path.leaf.val.sibling)
             key_immediate == Poseidon(FrOne, key)
         IN  << <<FrOne, key, key_immediate>>,
                <<key_immediate, fr(path.leaf.val.value),
                  Poseidon(key_immediate, fr(path.leaf.val.value))>> >>
    ELSE <<>>

SMTPathParse(path) ==
    IF ~PathHexOk(path) THEN [ok |-> FALSE, hash_traces |-> <<>>]
    ELSE LET leaf_steps == ParseLeafSteps(path)
             start == IF leaf_steps = <<>> THEN FrZero ELSE leaf_steps[2][3]
         IN  [ok |-> TRUE,
              hash_traces |-> leaf_steps \o ParseSteps(path, Len(path.path), start)]

(***************************************************************************)
(* fn path_root(path: SMTPath) -> Fr                                       *)
(***************************************************************************)
\* the starting digest: the leaf digest, or zero without a leaf
account_hash_of(path) ==
    IF path.leaf.some
    THEN IF fr(path.leaf.val.sibling) = Panicked \/ fr(path.leaf.val.value) = Panicked
         THEN Panicked
         ELSE hash(hash(FrOne, fr(path.leaf.val.sibling)), fr(path.leaf.val.value))
    ELSE FrZero

\* the loop body without its assert_eq!(digest, fr(node.value))
PathStep_NoValueAssert(bit, node, digest) ==
    IF fr(node.value) = Panicked THEN Panicked
    ELSE IF fr(node.sibling) = Panicked THEN Panicked
    ELSE IF bit THEN hash(fr(node.sibling), digest)
    ELSE hash(digest, fr(node.sibling))

\* one iteration of the loop over directions.iter().zip(path.path.iter().rev())
PathStep(bit, node, digest) ==
    IF fr(node.value) = Panicked \/ digest # fr(node.value) THEN Panicked
    ELSE IF fr(node.sibling) = Panicked THEN Panicked
    ELSE IF bit THEN hash(fr(node.sibling), digest)
    ELSE hash(digest, fr(node.sibling))

RECURSIVE PathFold(_, _, _, _)
PathFold(directions, nodes, k, digest) ==
    IF k > Min(Len(directions), Len(nodes)) \/ digest = Panicked THEN digest
    ELSE PathFold(directions, nodes, k + 1, PathStep(directions[k], nodes[k], digest))

\* path_root without its final assert_eq!(digest, fr(path.root))
path_root_NoRootAssert(path) ==
    LET parse == SMTPathParse(path)
    IN  IF ~parse.ok THEN Panicked
        ELSE IF account_hash_of(path) = Panicked THEN Panicked
        ELSE LET directions == bits(path.path_part, Len(path.path))
                 digest == PathFold(directions, Reverse(path.path), 1,
                                    account_hash_of(path))
             IN  IF digest = Panicked THEN Panicked ELSE fr(path.root)

\* path_root returning Fr::zero() at once for a path without a leaf record
path_root_NoLeafZero(path) ==
    LET parse == SMTPathParse(path)
    IN  IF ~parse.ok THEN Panicked
        ELSE IF \E j \in 1 .. Len(parse.hash_traces) :
                   hash(parse.hash_traces[j][1], parse.hash_traces[j][2])
                       # parse.hash_traces[j][3]
        THEN Panicked
        ELSE IF ~path.leaf.some THEN FrZero
        ELSE IF account_hash_of(path) = Panicked THEN Panicked
        ELSE LET directions == bits(path.path_part, Len(path.path))
                 digest == PathFold(directions, Reverse(path.path), 1,
                                    account_hash_of(path))
             IN  IF digest = Panicked THEN Panicked
                 ELSE IF digest # fr(path.root) THEN Panicked
                 ELSE fr(path.root)

path_root(path) ==
    LET parse == SMTPathParse(path)
    IN  IF ~parse.ok THEN Panicked
        ELSE IF \E j \in 1 .. Len(parse.hash_traces) :
                   hash(parse.hash_traces[j][1], parse.hash_traces[j][2])
                       # parse.hash_traces[j][3]
        THEN Panicked
        ELSE IF account_hash_of(path) = Panicked THEN Panicked
        ELSE LET directions == bits(path.path_part, Len(path.path))
                 digest == PathFold(directions, Reverse(path.path), 1,
                                    account_hash_of(path))
             IN  IF digest = Panicked THEN Panicked
                 ELSE IF digest # fr(path.root) THEN Panicked
                 ELSE fr(path.root)

(***************************************************************************)
(* fn account_hash(account: AccountData, state_root: Fr) -> Fr             *)
(***************************************************************************)
\* Account::account_hash of the Account built from (&account, state_root)
Account_account_hash(account, state_root) ==
    LET hi == account.code_hash \div (DigitBase * DigitBase)
        lo == account.code_hash % (DigitBase * DigitBase)
        h1 == Poseidon(hi % FieldModulus, lo % FieldModulus)
        h3 == Poseidon(account.nonce % FieldModulus, account.balance % FieldModulus)
    IN  Poseidon(h3, Poseidon(h1, state_root))

account_hash(account, state_root) ==
    LET codehash == hi_lo(account.code_hash)
        h1 == hash(codehash[1], codehash[2])
        h3 == hash(FrFrom(account.nonce), balance_convert(account.balance))
        h2 == hash(h1, state_root)
        result == hash(h3, h2)
    IN  IF result # Account_account_hash(account, state_root) THEN Panicked
        ELSE result

\* fn storage_roots(trace: &SMTTrace) -> [Fr; 2]
storage_roots(t) ==
    IF t.common_state_root.some
    THEN <<fr(t.common_state_root.val), fr(t.common_state_root.val)>>
    ELSE [k \in 1 .. 2 |->
            IF t.state_path[k].some THEN path_root(t.state_path[k].val) ELSE Panicked]

(***************************************************************************)
(* impl From<&SMTTrace> for ClaimKind                                      *)
(***************************************************************************)
KindPanic == [tag |-> "Panic"]

\* the storage arm with [Some(old), None] classified as a storage removal
\* instead of unimplemented!("SELFDESTRUCT")
StorageClaim_Deletion(account_old, account_new, old, new) ==
    IF old.some /\ new.some
    THEN IF account_old # account_new THEN KindPanic
         ELSE IF old.val = new.val
         THEN [tag |-> "Read", sub |-> "Storage",
               key |-> u256_from_hex(old.val.key),
               value |-> u256_from_hex(old.val.value)]
         ELSE [tag |-> "Write", sub |-> "Storage",
               key |-> u256_from_hex(old.val.key),
               old_value |-> Some(u256_from_hex(old.val.value)),
               new_value |-> Some(u256_from_hex(new.val.value))]
    ELSE IF new.some
    THEN IF account_old # account_new THEN KindPanic
         ELSE [tag |-> "Write", sub |-> "Storage",
               key |-> u256_from_hex(new.val.key),
               old_value |-> None,
               new_value |-> Some(u256_from_hex(new.val.value))]
    ELSE [tag |-> "Write", sub |-> "Storage",
          key |-> u256_from_hex(old.val.key),
          old_value |-> Some(u256_from_hex(old.val.value)),
          new_value |-> None]

\* the arm that decides on the storage diff [old, new]
StorageClaim(account_old, account_new, old, new) ==
    IF old.some /\ new.some
    THEN IF account_old # account_new THEN KindPanic
         ELSE IF old.val = new.val
         THEN [tag |-> "Read", sub |-> "Storage",
               key |-> u256_from_hex(old.val.key),
               value |-> u256_from_hex(old.val.value)]
         ELSE [tag |-> "Write", sub |-> "Storage",
               key |-> u256_from_hex(old.val.key),
               old_value |-> Some(u256_from_hex(old.val.value)),
               new_value |-> Some(u256_from_hex(new.val.value))]
    ELSE IF new.some
    THEN IF account_old # account_new THEN KindPanic
         ELSE [tag |-> "Write", sub |-> "Storage",
               key |-> u256_from_hex(new.val.key),
               old_value |-> None,
               new_value |-> Some(u256_from_hex(new.val.value))]
    ELSE KindPanic

\* the [None, Some(new)] arm taking the first non-zero field instead of
\* requiring exactly one
CreateClaim_FirstNonZero(new) ==
    IF new.nonce # 0
    THEN [tag |-> "Write", sub |-> "Nonce", old |-> None, new |-> Some(new.nonce)]
    ELSE IF new.balance # 0
    THEN [tag |-> "Write", sub |-> "Balance", old |-> None,
          new |-> Some(u256(new.balance))]
    ELSE IF new.code_hash # 0
    THEN [tag |-> "Write", sub |-> "CodeHash", old |-> None,
          new |-> Some(u256(new.code_hash))]
    ELSE KindPanic

\* the arm for [None, Some(new)]
CreateClaim(new) ==
    LET n == new.nonce # 0
        b == new.balance # 0
        c == new.code_hash # 0
    IN  IF n /\ ~b /\ ~c
        THEN [tag |-> "Write", sub |-> "Nonce", old |-> None, new |-> Some(new.nonce)]
        ELSE IF ~n /\ b /\ ~c
        THEN [tag |-> "Write", sub |-> "Balance", old |-> None,
              new |-> Some(u256(new.balance))]
        ELSE IF ~n /\ ~b /\ c
        THEN [tag |-> "Write", sub |-> "CodeHash", old |-> None,
              new |-> Some(u256(new.code_hash))]
        ELSE KindPanic

\* the [Some(old), Some(new)] arm that forgets to compare the code hashes
UpdateClaim_NoCodeHashDiff(old, new) ==
    LET n == old.nonce # new.nonce
        b == old.balance # new.balance
    IN  IF n /\ ~b
        THEN [tag |-> "Write", sub |-> "Nonce",
              old |-> Some(old.nonce), new |-> Some(new.nonce)]
        ELSE IF ~n /\ b
        THEN [tag |-> "Write", sub |-> "Balance",
              old |-> Some(u256(old.balance)), new |-> Some(u256(new.balance))]
        ELSE IF ~n /\ ~b
        THEN [tag |-> "Read", sub |-> "Nonce", value |-> old.nonce]
        ELSE KindPanic

\* the arm for [Some(old), Some(new)]
UpdateClaim(old, new) ==
    LET n == old.nonce # new.nonce
        b == old.balance # new.balance
        c == old.code_hash # new.code_hash
    IN  IF n /\ ~b /\ ~c
        THEN [tag |-> "Write", sub |-> "Nonce",
              old |-> Some(old.nonce), new |-> Some(new.nonce)]
        ELSE IF ~n /\ b /\ ~c
        THEN [tag |-> "Write", sub |-> "Balance",
              old |-> Some(u256(old.balance)), new |-> Some(u256(new.balance))]
        ELSE IF ~n /\ ~b /\ c
        THEN [tag |-> "Write", sub |-> "CodeHash",
              old |-> Some(u256(old.code_hash)), new |-> Some(u256(new.code_hash))]
        ELSE IF ~n /\ ~b /\ ~c
        THEN [tag |-> "Read", sub |-> "Nonce", value |-> old.nonce]
        ELSE KindPanic

\* the account match with the all-zero created account of the
\* "non-existence proof?" arm classified as IsEmpty
AccountClaim_EmptyOnZero(account_old, account_new) ==
    IF ~account_old.some /\ ~account_new.some THEN [tag |-> "IsEmpty", key |-> None]
    ELSE IF ~account_old.some
    THEN IF account_new.val.nonce = 0 /\ account_new.val.balance = 0
            /\ account_new.val.code_hash = 0
         THEN [tag |-> "IsEmpty", key |-> None]
         ELSE CreateClaim(account_new.val)
    ELSE IF ~account_new.some THEN KindPanic
    ELSE UpdateClaim(account_old.val, account_new.val)

\* the match on account_update when no storage diff decided
AccountClaim(account_old, account_new) ==
    IF ~account_old.some /\ ~account_new.some THEN [tag |-> "IsEmpty", key |-> None]
    ELSE IF ~account_old.some THEN CreateClaim(account_new.val)
    ELSE IF ~account_new.some THEN KindPanic
    ELSE UpdateClaim(account_old.val, account_new.val)

ClaimKindFrom(t) ==
    LET account_old == t.account_update[1]
        account_new == t.account_update[2]
        state_update == t.state_update
    IN  IF state_update.some
           /\ (state_update.val[1].some \/ state_update.val[2].some)
        THEN StorageClaim(account_old, account_new,
                          state_update.val[1], state_update.val[2])
        ELSE AccountClaim(account_old, account_new)

(***************************************************************************)
(* impl From<SMTTrace> for Proof                                           *)
(***************************************************************************)
NoProof == [tag |-> "None"]
ProofPanic == [tag |-> "Panic"]

\* the zip loop without assert_eq!(open.sibling, close.sibling)
HashTraces_NoSiblingAssert(account_key_, open, close) ==
    IF Len(open) # Len(close) THEN None
    ELSE IF \E i \in 1 .. Len(open) :
               \/ fr(open[i].value) = Panicked
               \/ fr(close[i].value) = Panicked
               \/ fr(open[i].sibling) = Panicked
    THEN None
    ELSE Some([i \in 1 .. Len(open) |->
                 <<FrBit(account_key_, i - 1), fr(open[i].value),
                   fr(close[i].value), fr(open[i].sibling)>>])

\* the loop over open_hash_traces.iter().zip_eq(&close_hash_traces).enumerate()
HashTraces(account_key_, open, close) ==
    IF Len(open) # Len(close) THEN None
    ELSE IF \E i \in 1 .. Len(open) : open[i].sibling # close[i].sibling THEN None
    ELSE IF \E i \in 1 .. Len(open) :
               \/ fr(open[i].value) = Panicked
               \/ fr(close[i].value) = Panicked
               \/ fr(open[i].sibling) = Panicked
    THEN None
    ELSE Some([i \in 1 .. Len(open) |->
                 <<FrBit(account_key_, i - 1), fr(open[i].value),
                   fr(close[i].value), fr(open[i].sibling)>>])

ProofFrom(t) ==
    LET old_root == path_root(t.account_path[1])
        new_root == path_root(t.account_path[2])
        address == t.address
        claim_kind == ClaimKindFrom(t)
        address_hash_traces ==
            HashTraces(account_key(address), t.account_path[1].path,
                       t.account_path[2].path)
    IN  IF old_root = Panicked \/ new_root = Panicked THEN ProofPanic
        ELSE IF claim_kind.tag = "Panic" THEN ProofPanic
        ELSE IF ~address_hash_traces.some THEN ProofPanic
        ELSE [tag |-> "Proof",
              claim |-> [old_root |-> old_root, new_root |-> new_root,
                         address |-> address, kind |-> claim_kind],
              address_hash_traces |-> address_hash_traces.val]

(***************************************************************************)
(* Proof::check                                                            *)
(***************************************************************************)
\* the loop body checking the before-chain only
CheckPair_OpenOnly(current, next) ==
    IF current[1]
    THEN hash(current[4], current[2]) = next[2]
    ELSE hash(current[2], current[4]) = next[2]

\* the body of the loop for one (current, next) pair
CheckPair(current, next) ==
    LET direction == current[1]
        open == current[2]
        close == current[3]
        sibling == current[4]
        next_open == next[2]
        next_close == next[3]
    IN  IF direction
        THEN hash(sibling, open) = next_open /\ hash(sibling, close) = next_close
        ELSE hash(open, sibling) = next_open /\ hash(close, sibling) = next_close

ProofCheck(p) ==
    LET current_address_hash_traces == Reverse(p.address_hash_traces)
        next_address_hash_traces ==
            IF current_address_hash_traces = <<>> THEN <<>>
            ELSE Tail(current_address_hash_traces)
        n == Min(Len(current_address_hash_traces), Len(next_address_hash_traces))
    IN  IF \A k \in 1 .. n :
              CheckPair(current_address_hash_traces[k], next_address_hash_traces[k])
        THEN "ok"
        ELSE "panic"

(***************************************************************************)
(* The inputs: SMTTrace values.  A trace is built from a before-path that *)
(* is the honest record of a walk (leaf, siblings, path_part), an         *)
(* after-path that is an honest walk too, and at most one deviation       *)
(* between the two or corruption of a recorded value.                     *)
(***************************************************************************)
AddressWithLowByte(b) == [i \in 1 .. AddressLen |-> IF i = AddressLen THEN b ELSE 0]

Addresses == {AddressWithLowByte(1), AddressWithLowByte(4)}

SiblingValues == {0, 1}

LeafRecords == {None, Some([sibling |-> 0, value |-> 1]), Some([sibling |-> 1, value |-> 2])}

PathParts == 0 .. (Pow2(MaxLen) - 1)

SiblingLists == UNION {[1 .. n -> SiblingValues] : n \in 0 .. MaxLen}

\* the bytes of a recorded value v: canonical when v < FieldModulus
Hex(v) == LittleEndianBytes(v, HexLen)

\* a value other than v, possibly the non-canonical FieldModulus
Wrong(h) == Hex((FromLittleEndian(h, 1) + 1) % (FieldModulus + 1))

WalkBit(part, k) == (part \div Pow2(k)) % 2 = 1

WalkLeaf(leaf) ==
    IF leaf.some THEN Poseidon(Poseidon(1, leaf.val.sibling), leaf.val.value) ELSE 0

\* the digest of the subtree below level j of the walk (j = 0: the root)
RECURSIVE WalkDigest(_, _, _, _)
WalkDigest(leaf, sibs, part, j) ==
    IF j = Len(sibs) THEN WalkLeaf(leaf)
    ELSE LET below == WalkDigest(leaf, sibs, part, j + 1)
         IN  IF WalkBit(part, j) THEN Poseidon(sibs[j + 1], below)
             ELSE Poseidon(below, sibs[j + 1])

HonestPath(leaf, sibs, part) ==
    [root |-> Hex(WalkDigest(leaf, sibs, part, 0)),
     leaf |-> IF leaf.some
              THEN Some([sibling |-> Hex(leaf.val.sibling), value |-> Hex(leaf.val.value)])
              ELSE None,
     path |-> [j \in 1 .. Len(sibs) |->
                  [value |-> Hex(WalkDigest(leaf, sibs, part, j)),
                   sibling |-> Hex(sibs[j])]],
     path_part |-> part]

Deviations(sibs, part) ==
    {[dev |-> "none"], [dev |-> "old_root"], [dev |-> "new_root"]}
    \cup {[dev |-> "sibling", i |-> i] : i \in 1 .. Len(sibs)}
    \cup {[dev |-> "old_value", i |-> i] : i \in 1 .. Len(sibs)}
    \cup {[dev |-> "new_value", i |-> i] : i \in 1 .. Len(sibs)}
    \cup {[dev |-> "part", part |-> p] : p \in PathParts \ {part}}
    \cup {[dev |-> "account_key"]}
    \cup (IF Len(sibs) > 0 THEN {[dev |-> "shorter"]} ELSE {})
    \cup (IF Len(sibs) < MaxLen THEN {[dev |-> "longer"]} ELSE {})

OtherSibling(v) == IF v = 0 THEN 1 ELSE 0

NewSiblings(sibs, d) ==
    IF d.dev = "sibling"
    THEN [j \in 1 .. Len(sibs) |-> IF j = d.i THEN OtherSibling(sibs[j]) ELSE sibs[j]]
    ELSE IF d.dev = "shorter" THEN SubSeq(sibs, 1, Len(sibs) - 1)
    ELSE IF d.dev = "longer" THEN Append(sibs, 0)
    ELSE sibs

WithRoot(path, d, which) ==
    IF d.dev = which THEN [path EXCEPT !.root = Wrong(path.root)] ELSE path

WithValue(path, d, which) ==
    IF d.dev = which
    THEN [path EXCEPT !.path[d.i].value = Wrong(path.path[d.i].value)]
    ELSE path

PathPair(leaf_old, leaf_new, sibs, part, d) ==
    LET before == HonestPath(leaf_old, sibs, part)
        after == HonestPath(leaf_new, NewSiblings(sibs, d),
                            IF d.dev = "part" THEN d.part ELSE part)
    IN  <<WithValue(WithRoot(before, d, "old_root"), d, "old_value"),
          WithValue(WithRoot(after, d, "new_root"), d, "new_value")>>

Accounts ==
    [nonce : 0 .. MaxNonce, balance : 0 .. MaxBalance, code_hash : 0 .. MaxCodeHash]

OptAccounts == {None} \cup {Some(a) : a \in Accounts}

\* the big-endian bytes of a storage key or value whose last two bytes are hi, lo
HexBE(hi, lo) ==
    [i \in 1 .. HexLen |-> IF i = HexLen THEN lo ELSE IF i = HexLen - 1 THEN hi ELSE 0]

StorageWords == {HexBE(0, 1), HexBE(1, 0)}

StateDatas == [key : StorageWords, value : StorageWords]

OptStateDatas == {None} \cup {Some(s) : s \in StateDatas}

StateUpdates == {None} \cup {Some(<<a, b>>) : a \in OptStateDatas, b \in OptStateDatas}

ReadAccount == [nonce |-> 1, balance |-> 0, code_hash |-> 0]

\* a trace that varies the two account paths
PathTrace(a, lo, ln, sibs, part, d) ==
    [address |-> a,
     account_key |-> IF d.dev = "account_key" THEN Wrong(Hex(account_key(a)))
                     ELSE Hex(account_key(a)),
     account_path |-> PathPair(lo, ln, sibs, part, d),
     account_update |-> <<Some(ReadAccount), Some(ReadAccount)>>,
     common_state_root |-> Some(Hex(FrZero)),
     state_path |-> <<None, None>>,
     state_update |-> None]

\* a trace that varies the account records and the storage diff
UpdateTrace(ao, an, su) ==
    [address |-> AddressWithLowByte(1),
     account_key |-> Hex(account_key(AddressWithLowByte(1))),
     account_path |-> PathPair(Some([sibling |-> 0, value |-> 1]),
                               Some([sibling |-> 0, value |-> 2]),
                               <<1>>, 0, [dev |-> "none"]),
     account_update |-> <<ao, an>>,
     common_state_root |-> Some(Hex(FrZero)),
     state_path |-> <<None, None>>,
     state_update |-> su]

(***************************************************************************)
(* The state machine: a trace is received, then classified on its own     *)
(* (ClaimKind::from) or turned into a Proof (Proof::from) that is then    *)
(* checked (Proof::check), as test::check_all does.                       *)
(***************************************************************************)
\* no pure function is being called
NoCall == [fn |-> "none"]
NoReturn == [tag |-> "None"]

InitTrace ==
    \/ \E a \in Addresses, lo \in LeafRecords, ln \in LeafRecords,
          sibs \in SiblingLists, part \in PathParts :
          \E d \in Deviations(sibs, part) :
             trace = PathTrace(a, lo, ln, sibs, part, d)
    \/ \E ao \in OptAccounts, an \in OptAccounts, su \in StateUpdates :
          trace = UpdateTrace(ao, an, su)

Init ==
    /\ InitTrace
    /\ pc = "start"
    /\ proof = NoProof
    /\ kind = [tag |-> "None"]
    /\ checked = "none"
    /\ call = NoCall
    /\ ret = NoReturn

Classify ==
    /\ pc = "start"
    /\ kind' = ClaimKindFrom(trace)
    /\ pc' = "classified"
    /\ UNCHANGED <<trace, proof, checked, call, ret>>

FromTrace ==
    /\ pc = "start"
    /\ proof' = ProofFrom(trace)
    /\ pc' = "from"
    /\ UNCHANGED <<trace, kind, checked, call, ret>>

Check ==
    /\ pc = "from"
    /\ proof.tag = "Proof"
    /\ checked' = ProofCheck(proof)
    /\ pc' = "checked"
    /\ UNCHANGED <<trace, proof, kind, call, ret>>

Next == Classify \/ FromTrace \/ Check

Spec == Init /\ [][Next]_vars

(***************************************************************************)
(* Proof::check on its own: any Proof value of up to MaxLevels levels.     *)
(***************************************************************************)
ProofValues == {0, 1}

HashTraceEntries == BOOLEAN \X ProofValues \X ProofValues \X ProofValues

AnyHashTraces == UNION {[1 .. n -> HashTraceEntries] : n \in 0 .. MaxLevels}

InitCheck ==
    /\ trace = UpdateTrace(None, None, None)
    /\ pc = "from"
    /\ \E t \in AnyHashTraces, o \in ProofValues :
          proof = [tag |-> "Proof",
                   claim |-> [old_root |-> o, new_root |-> o,
                              address |-> AddressWithLowByte(1),
                              kind |-> [tag |-> "IsEmpty", key |-> None]],
                   address_hash_traces |-> t]
    /\ kind = [tag |-> "None"]
    /\ checked = "none"
    /\ call = NoCall
    /\ ret = NoReturn

NextCheck == Check

SpecCheck == InitCheck /\ [][NextCheck]_vars

(***************************************************************************)
(* The helper functions on their own: one call of account_hash, of         *)
(* path_root or of bit(i) on an input from a bounded set.                  *)
(***************************************************************************)
\* a digit of a BigUint: zero, one or the largest digit
DigitSamples == {0, 1, DigitBase - 1}

RECURSIVE DigitsValue(_, _)
DigitsValue(digits, k) ==
    IF k > Len(digits) THEN 0 ELSE digits[k] + DigitBase * DigitsValue(digits, k + 1)

\* the code hashes below 2^256: up to CodeHashDigits digits
CodeHashInputs == {DigitsValue(d, 1) : d \in [1 .. CodeHashDigits -> DigitSamples]}

BalanceInputs == {DigitsValue(d, 1) : d \in [1 .. MaxBalanceDigits -> DigitSamples]}

StateRootInputs == {0, 1, FieldModulus - 1}

RepeatByte(b) == [i \in 1 .. AddressLen |-> b]

BitAddresses ==
    {RepeatByte(1), AddressWithLowByte(4), [i \in 1 .. AddressLen |-> (37 * i) % 256]}

Outcome(digest) ==
    IF digest = Panicked THEN [tag |-> "Panic"] ELSE [tag |-> "Ok", val |-> digest]

InitCall ==
    \/ \E nonce \in {0, MaxNonce}, balance \in BalanceInputs,
          code_hash \in CodeHashInputs, state_root \in StateRootInputs :
          call = [fn |-> "account_hash",
                  account |-> [nonce |-> nonce, balance |-> balance,
                               code_hash |-> code_hash],
                  state_root |-> state_root]
    \/ \E lo \in LeafRecords, ln \in LeafRecords, sibs \in SiblingLists,
          part \in PathParts, k \in 1 .. 2 :
          \E d \in Deviations(sibs, part) :
             call = [fn |-> "path_root", path |-> PathPair(lo, ln, sibs, part, d)[k]]
    \/ \E a \in BitAddresses, i \in 0 .. MaxBitIndex :
          call = [fn |-> "Address::bit", x |-> a, i |-> i]
    \/ \E x \in Fr, i \in 0 .. MaxBitIndex :
          call = [fn |-> "Fr::bit", x |-> x, i |-> i]

InitPure ==
    /\ trace = UpdateTrace(None, None, None)
    /\ pc = "call"
    /\ proof = NoProof
    /\ kind = [tag |-> "None"]
    /\ checked = "none"
    /\ InitCall
    /\ ret = NoReturn

CallAccountHash ==
    /\ pc = "call"
    /\ call.fn = "account_hash"
    /\ ret' = Outcome(account_hash(call.account, call.state_root))
    /\ pc' = "returned"
    /\ UNCHANGED <<trace, proof, kind, checked, call>>

CallPathRoot ==
    /\ pc = "call"
    /\ call.fn = "path_root"
    /\ ret' = Outcome(path_root(call.path))
    /\ pc' = "returned"
    /\ UNCHANGED <<trace, proof, kind, checked, call>>

CallAddressBit ==
    /\ pc = "call"
    /\ call.fn = "Address::bit"
    /\ ret' \in AddressBitOutcomes(call.x, call.i)
    /\ pc' = "returned"
    /\ UNCHANGED <<trace, proof, kind, checked, call>>

CallFrBit ==
    /\ pc = "call"
    /\ call.fn = "Fr::bit"
    /\ ret' \in FrBitOutcomes(call.x, call.i)
    /\ pc' = "returned"
    /\ UNCHANGED <<trace, proof, kind, checked, call>>

NextPure == CallAccountHash \/ CallPathRoot \/ CallAddressBit \/ CallFrBit

SpecPure == InitPure /\ [][NextPure]_vars

(***************************************************************************)
(* Properties.                                                             *)
(***************************************************************************)
Returned == pc \in {"from", "checked"} /\ proof.tag = "Proof"

Value(h) == FromLittleEndian(h, 1)

Fold(d, v, s) == IF d THEN Poseidon(s, v) ELSE Poseidon(v, s)

\* the root of a path recomputed from its leaf record, its siblings and
\* path_part alone: the digest of the subtree below level j (j = 0: the root)
RECURSIVE Recomputed(_, _)
Recomputed(path, j) ==
    IF j = Len(path.path)
    THEN IF path.leaf.some
         THEN Poseidon(Poseidon(1, Value(path.leaf.val.sibling)), Value(path.leaf.val.value))
         ELSE 0
    ELSE Fold(WalkBit(path.path_part, j), Recomputed(path, j + 1),
              Value(path.path[j + 1].sibling))

\* C1: Proof::from returns a Proof only if the root recomputed bottom-up
\* equals the claimed root of the before-path and of the after-path, and the
\* claim's old_root and new_root are those claimed roots.
C1_RootsMatch ==
    Returned =>
        /\ \A k \in 1 .. 2 :
              Recomputed(trace.account_path[k], 0) = Value(trace.account_path[k].root)
        /\ proof.claim.old_root = Value(trace.account_path[1].root)
        /\ proof.claim.new_root = Value(trace.account_path[2].root)

C1_Witness ==
    /\ pc = "from"
    /\ proof.tag = "Proof"
    /\ Len(trace.account_path[1].path) >= 2
    /\ proof.claim.old_root # proof.claim.new_root

\* C2: Proof::from returns a Proof only if both paths have the same number
\* of levels and equal siblings at every level; address_hash_traces then has
\* one entry per level carrying (before value, after value, common sibling).
C2_ShapeInvariant ==
    Returned =>
        LET open == trace.account_path[1].path
            close == trace.account_path[2].path
            entries == proof.address_hash_traces
        IN  /\ Len(open) = Len(close)
            /\ Len(entries) = Len(open)
            /\ \A i \in 1 .. Len(open) :
                  /\ open[i].sibling = close[i].sibling
                  /\ entries[i][2] = Value(open[i].value)
                  /\ entries[i][3] = Value(close[i].value)
                  /\ entries[i][4] = Value(open[i].sibling)

C2_Witness ==
    /\ pc = "from"
    /\ proof.tag = "Proof"
    /\ Len(proof.address_hash_traces) >= 2
    /\ \E i \in 1 .. Len(proof.address_hash_traces) :
          proof.address_hash_traces[i][2] # proof.address_hash_traces[i][3]

\* C3: in every returned Proof, at every level i (0 = nearest the root) bit i
\* of path_part equals bit i of account_key(address), the direction stored in
\* address_hash_traces.
C3_DirectionAgreement ==
    Returned =>
        \A k \in 1 .. 2 :
           \A i \in 1 .. Len(trace.account_path[k].path) :
              /\ WalkBit(trace.account_path[k].path_part, i - 1)
                    = ((account_key(trace.address) \div Pow2(i - 1)) % 2 = 1)
              /\ proof.address_hash_traces[i][1]
                    = WalkBit(trace.account_path[k].path_part, i - 1)

\* C4: Proof::from returns a Proof only if the before-path and the after-path
\* decode to the same direction bits over the path length.
C4_SameDirections ==
    Returned =>
        \A i \in 1 .. Len(trace.account_path[1].path) :
           WalkBit(trace.account_path[1].path_part, i - 1)
              = WalkBit(trace.account_path[2].path_part, i - 1)

\* C5: every Proof returned by Proof::from passes Proof::check.
C5_ReturnedProofChecks == pc = "checked" => checked = "ok"

\* C6: for a Proof of at least one level returned by Proof::from and accepted
\* by Proof::check, folding the root-nearest entry with its own direction bit
\* gives claim.old_root for the before value and claim.new_root for the after
\* value.
C6_ChainEndsInRoots ==
    (pc = "checked" /\ checked = "ok" /\ Len(proof.address_hash_traces) >= 1) =>
        LET e == proof.address_hash_traces[1]
        IN  /\ Fold(e[1], e[2], e[4]) = proof.claim.old_root
            /\ Fold(e[1], e[3], e[4]) = proof.claim.new_root

NoStorageDiff == ~trace.state_update.some \/ trace.state_update.val = <<None, None>>

Differing(old, new) ==
    {f \in {"nonce", "balance", "code_hash"} : old[f] # new[f]}

\* C8: without a deciding storage diff and with both account records present:
\* exactly one differing field gives the matching Write with old and new
\* present; no differing field gives Read::Nonce(old.nonce); two or three
\* differing fields make classification fail.
C8_UpdateClassified ==
    (pc = "classified" /\ NoStorageDiff
        /\ trace.account_update[1].some /\ trace.account_update[2].some) =>
        LET old == trace.account_update[1].val
            new == trace.account_update[2].val
            diff == Differing(old, new)
        IN  /\ diff = {} =>
                  kind = [tag |-> "Read", sub |-> "Nonce", value |-> old.nonce]
            /\ diff = {"nonce"} =>
                  kind = [tag |-> "Write", sub |-> "Nonce",
                          old |-> Some(old.nonce), new |-> Some(new.nonce)]
            /\ diff = {"balance"} =>
                  kind = [tag |-> "Write", sub |-> "Balance",
                          old |-> Some(old.balance), new |-> Some(new.balance)]
            /\ diff = {"code_hash"} =>
                  kind = [tag |-> "Write", sub |-> "CodeHash",
                          old |-> Some(old.code_hash), new |-> Some(new.code_hash)]
            /\ Cardinality(diff) >= 2 => kind.tag = "Panic"

C8_Witness ==
    /\ pc = "classified"
    /\ NoStorageDiff
    /\ trace.account_update[1].some
    /\ trace.account_update[2].some
    /\ Differing(trace.account_update[1].val, trace.account_update[2].val) = {"code_hash"}
    /\ kind.tag = "Write"
    /\ kind.sub = "CodeHash"

NonZero(new) == {f \in {"nonce", "balance", "code_hash"} : new[f] # 0}

\* C9: without a deciding storage diff and with the account {absent, present}:
\* exactly one non-zero field of the new record gives the matching Write with
\* old = none and new = some(value); no or several non-zero fields make
\* classification fail.
C9_CreateClassified ==
    (pc = "classified" /\ NoStorageDiff
        /\ ~trace.account_update[1].some /\ trace.account_update[2].some) =>
        LET new == trace.account_update[2].val
            nz == NonZero(new)
        IN  /\ nz = {"nonce"} =>
                  kind = [tag |-> "Write", sub |-> "Nonce",
                          old |-> None, new |-> Some(new.nonce)]
            /\ nz = {"balance"} =>
                  kind = [tag |-> "Write", sub |-> "Balance",
                          old |-> None, new |-> Some(new.balance)]
            /\ nz = {"code_hash"} =>
                  kind = [tag |-> "Write", sub |-> "CodeHash",
                          old |-> None, new |-> Some(new.code_hash)]
            /\ Cardinality(nz) # 1 => kind.tag = "Panic"

C9_Witness ==
    /\ pc = "classified"
    /\ NoStorageDiff
    /\ ~trace.account_update[1].some
    /\ trace.account_update[2].some
    /\ NonZero(trace.account_update[2].val) = {"nonce"}
    /\ kind = [tag |-> "Write", sub |-> "Nonce", old |-> None, new |-> Some(1)]

\* the 256-bit integer a storage word stands for
Word(h) == FromBigEndian(h, 1, 0)

\* C10: for a storage diff {some(old), some(new)} with identical account
\* records, classification returns Read::Storage exactly when
\* old.value = new.value and Write::Storage{some(old.value), some(new.value)}
\* otherwise, so such a Write::Storage has old_value # new_value; with
\* differing account records classification fails.
C10_StorageReadIffSameValue ==
    (pc = "classified" /\ trace.state_update.some
        /\ trace.state_update.val[1].some /\ trace.state_update.val[2].some) =>
        LET old == trace.state_update.val[1].val
            new == trace.state_update.val[2].val
        IN  IF trace.account_update[1] # trace.account_update[2]
            THEN kind.tag = "Panic"
            ELSE IF old.value = new.value
            THEN kind.tag = "Read" /\ kind.sub = "Storage"
            ELSE /\ kind.tag = "Write"
                 /\ kind.sub = "Storage"
                 /\ kind.old_value = Some(Word(old.value))
                 /\ kind.new_value = Some(Word(new.value))
                 /\ kind.old_value # kind.new_value

\* C11: a removal is never classified. A storage diff {some(old), none}
\* makes classification fail, and so does an account pair {present, absent}
\* whatever the storage diff is; Proof::from then returns no Proof.
C11_RemovalNeverClassified ==
    LET storage_removed == /\ trace.state_update.some
                           /\ trace.state_update.val[1].some
                           /\ ~trace.state_update.val[2].some
        account_removed == /\ trace.account_update[1].some
                           /\ ~trace.account_update[2].some
    IN  (storage_removed \/ account_removed) =>
            /\ pc = "classified" => kind.tag = "Panic"
            /\ pc = "from" => proof.tag = "Panic"
            /\ pc # "checked"

C11_Witness ==
    /\ pc = "from"
    /\ proof.tag = "Panic"
    /\ trace.state_update.some
    /\ trace.state_update.val[1].some
    /\ ~trace.state_update.val[2].some
    /\ trace.account_update[1] = trace.account_update[2]

\* C12: classification returns IsEmpty exactly when both account records
\* are absent and the storage diff is absent or {none, none}; the result is
\* then IsEmpty(none). It is never IsEmpty when either account record is
\* present, and never IsEmpty with a storage key.
C12_IsEmptyIffNothing ==
    pc = "classified" =>
        /\ kind.tag = "IsEmpty" <=>
              /\ ~trace.account_update[1].some
              /\ ~trace.account_update[2].some
              /\ NoStorageDiff
        /\ kind.tag = "IsEmpty" => kind = [tag |-> "IsEmpty", key |-> [some |-> FALSE]]

C12_Witness ==
    /\ pc = "classified"
    /\ kind.tag = "IsEmpty"
    /\ trace.state_update.some
    /\ ~trace.state_update.val[1].some
    /\ ~trace.state_update.val[2].some

\* a recorded root or node value of path k differs from the digest recomputed
\* below it
ValueMismatch(k) ==
    LET path == trace.account_path[k]
    IN  \/ Recomputed(path, 0) # Value(path.root)
        \/ \E j \in 1 .. Len(path.path) :
               Recomputed(path, j) # Value(path.path[j].value)

\* the two account paths differ in length or in a sibling
ShapeMismatch ==
    LET open == trace.account_path[1].path
        close == trace.account_path[2].path
    IN  \/ Len(open) # Len(close)
        \/ \E i \in 1 .. Min(Len(open), Len(close)) : open[i].sibling # close[i].sibling

\* the diff is a removal, changes several things at once or creates an
\* account with no or several non-zero fields
UnsupportedDiff ==
    LET old == trace.account_update[1]
        new == trace.account_update[2]
    IN  IF ~NoStorageDiff
        THEN \/ ~trace.state_update.val[2].some
             \/ old # new
        ELSE \/ old.some /\ ~new.some
             \/ ~old.some /\ new.some /\ Cardinality(NonZero(new.val)) # 1
             \/ old.some /\ new.some /\ Cardinality(Differing(old.val, new.val)) > 1

LeafDigest(nonce, balance, code_hash, storage_root) ==
    LET half == DigitBase * DigitBase
        hi == code_hash \div half
        lo == code_hash % half
    IN  Poseidon(Poseidon(nonce % FieldModulus, balance % FieldModulus),
                 Poseidon(Poseidon(hi % FieldModulus, lo % FieldModulus), storage_root))

\* C14: for every trace that Proof::from and Proof::check accept and whose
\* before account record is present, the before account path has a leaf
\* record whose value is the account leaf digest of the before account
\* record and the before storage root.
C14_LeafCommitsToAccount ==
    (pc = "checked" /\ checked = "ok" /\ trace.account_update[1].some) =>
        LET account == trace.account_update[1].val
            leaf == trace.account_path[1].leaf
        IN  /\ leaf.some
            /\ Value(leaf.val.value) =
                  LeafDigest(account.nonce, account.balance, account.code_hash,
                             Value(trace.common_state_root.val))

\* C15: for every trace that Proof::from accepts, the claimed account_key
\* is account_key(address) = H(high, low), high the big-endian value of the
\* first 16 bytes of the address and low that of its last 4 bytes shifted
\* left by 96 bits; a trace with another claimed key is rejected.
C15_ClaimedKeyIsDerivedKey ==
    Returned =>
        LET high == FrFromBE(SubSeq(trace.address, 1, 16), 1, 0)
            low == (FrFromBE(SubSeq(trace.address, 17, 20), 1, 0) * FrPow2(96))
                       % FieldModulus
        IN  Value(trace.account_key) = Poseidon(high, low)

\* C16: the account leaf digest of (nonce, balance, code hash, storage_root)
\* is H(H(nonce, B), H(H(hi, lo), storage_root)) where hi and lo are the
\* upper and lower halves of the code hash (hi * 2^128 + lo is the code hash
\* for every code hash below 2^256, also one with fewer than four digits such
\* as 0) and B is the balance reduced in the field.
C16_AccountLeafDigest ==
    (pc = "returned" /\ call.fn = "account_hash") =>
        LET account == call.account
            half == DigitBase * DigitBase
            hi == account.code_hash \div half
            lo == account.code_hash % half
        IN  /\ ret = [tag |-> "Ok",
                      val |-> LeafDigest(account.nonce, account.balance,
                                         account.code_hash, call.state_root)]
            /\ hi < half
            /\ hi * half + lo = account.code_hash
            /\ hi_lo(account.code_hash) = <<hi % FieldModulus, lo % FieldModulus>>
            /\ balance_convert(account.balance) = account.balance % FieldModulus

C16_Witness ==
    /\ pc = "returned"
    /\ call.fn = "account_hash"
    /\ ret.tag = "Ok"
    /\ Len(to_u64_digits(call.account.code_hash)) < CodeHashDigits
    /\ Len(to_u64_digits(call.account.balance)) > 1
    /\ call.account.balance > FieldModulus
    /\ call.account.balance % DigitBase # call.account.balance \div DigitBase

\* the walk of C17 over a path passes every check: each recorded node value
\* and the recorded root equal the digest recomputed below them
WalkPasses(path) ==
    /\ \A j \in 1 .. Len(path.path) : Recomputed(path, j) = Value(path.path[j].value)
    /\ Recomputed(path, 0) = Value(path.root)

\* C17: path_root(path) succeeds, returning path.root, exactly when the
\* walk passes every check: start at zero without a leaf record and at
\* H(H(ONE, leaf.sibling), leaf.value) with one, visit the levels from the
\* last element of path.path to the first, require the running digest to
\* equal the node's value, fold it with the sibling by bit i of path_part for
\* path index i, and require the final digest to equal path.root. A path
\* with no leaf and at least one level is folded and checked too.
C17_PathRootIffWalkPasses ==
    (pc = "returned" /\ call.fn = "path_root") =>
        /\ ret.tag = "Ok" <=> WalkPasses(call.path)
        /\ ret.tag = "Ok" => ret.val = Value(call.path.root)

C17_Witness ==
    /\ pc = "returned"
    /\ call.fn = "path_root"
    /\ ~call.path.leaf.some
    /\ Len(call.path.path) = 2
    /\ call.path.path_part = 1
    /\ ret.tag = "Ok"
    /\ ret.val # 0

\* C18: bit indexing is total. For an Address, bit(i) is bit (i mod 8) of
\* byte 19 - i/8 for 0 <= i < 160 and false, without failing, for i >= 160;
\* for a field element, bit(i) is bit i of its canonical integer value within
\* the width of its byte representation and false beyond it.
C18_BitIndexingTotal ==
    /\ (pc = "returned" /\ call.fn = "Address::bit") =>
          IF call.i < 160
          THEN ret = [tag |-> "Ok",
                      val |-> (call.x[20 - (call.i \div 8)] \div Pow2(call.i % 8)) % 2 = 1]
          ELSE ret = [tag |-> "Ok", val |-> FALSE]
    /\ (pc = "returned" /\ call.fn = "Fr::bit") =>
          IF call.i < 8 * HexLen
          THEN ret = [tag |-> "Ok", val |-> (call.x \div Pow2(call.i)) % 2 = 1]
          ELSE ret = [tag |-> "Ok", val |-> FALSE]

====
